---- MODULE Spec2Model ----
(***************************************************************************)
(* Policy Enforcement & Remediation Engine of finopsbridge.                *)
(*                                                                         *)
(*   Spec      one EnforcementWorker (worker.Start -> run -> ...) against  *)
(*             the database, interleaved with the external "ignore"        *)
(*             action on violations.                                       *)
(*   ConcSpec  the same worker code run by two workers at once against     *)
(*             one database (two replicas of the API process).             *)
(*   RemSpec   one invocation of a remediation action of the cloud         *)
(*             package over a listing of resources.                        *)
(*   OpaSpec   the opa.Engine under concurrent SavePolicy, ReloadPolicies  *)
(*             (explicit and from WatchForChanges) and EvaluatePolicy      *)
(*             calls, with a policy directory that can change under it.    *)
(***************************************************************************)
EXTENDS Integers, Sequences, FiniteSets, TLC

\* ------------------------------------------------------------------ bounds
\* Ticks one worker runs under Spec.
MaxTicks == 2
\* Ticks each of the two workers runs under ConcSpec.
ConcTicks == 1
\* Resources one remediation invocation is given, and the reservations, pages
\* or zones they come in, under RemSpec.
MaxResources == 7
MaxGroups == 3
\* Ticks the worker runs under EvalSpec and FanoutSpec, and under SchedSpec.
ShortTicks == 1
SchedTicks == 3
\* Engine calls and changes of the policy directory begun under OpaSpec.
MaxEngineCalls == 5

\* ------------------------------------------------------- configuration
\* Rows of the tables the engine only reads.
WorkerIds == {"w1", "w2"}
PolicyOrder == <<"p1", "p2", "p3">>
PolicyIds == {"p1", "p2", "p3"}
ProviderOrder == <<"a1", "a2">>
ProviderIds == {"a1", "a2"}
WebhookOrder == <<"h1", "h2", "h3", "h4">>
WebhookIds == {"h1", "h2", "h3", "h4"}

PolicyOrg(p) == IF p = "p3" THEN "o2" ELSE "o1"
ProviderOrg(a) == "o1"
ProviderKind(a) == IF a = "a1" THEN "aws" ELSE "azure"
WebhookOrg(h) == IF h = "h4" THEN "o2" ELSE "o1"

\* Policy.Type: the four documented types and one the worker has no case for.
PolicyTypes == {"max_spend", "block_instance_type", "auto_stop_idle", "require_tags", "budget_alert"}
\* The types followed over several ticks: one with a remediation action, the
\* notify-only one and the one without a case (the three with an action take
\* the same path through remediate).
FollowedPolicyTypes == {"max_spend", "require_tags", "budget_alert"}
\* The provider kinds processProvider has a case for.
KnownProviderKinds == {"aws", "azure", "gcp", "oci", "ibm"}

VARIABLES
    workers,      \* the worker processes of this deployment
    tickLimit,    \* ticks each worker runs (a bound of the exploration)
    policyType,   \* policies.type, by policy id
    policyEnabled,      \* policies.enabled, by policy id
    providerConnected,  \* cloud_providers.status = 'connected', by provider id
    webhookEnabled,     \* webhooks.enabled, by webhook id
    endpoint,     \* how the endpoint behind each webhook URL answers a POST
    regoFiles,    \* the <policy id>.rego files of the policy directory
    opaPolicies,  \* Engine.policies: the evaluator's cache, by policy id
    tickerC,      \* ticker.C of each worker's Start: 1 while a tick is held
    cancelled,    \* ctx.Done() is closed
    returns,      \* executions of run that have returned, by worker
    spend,        \* cloud_providers.monthly_spend, by provider id
    violations,   \* policy_violations, in insertion order (id = position)
    activity,     \* activity_logs, in insertion order
    remCalls,     \* remediation actions invoked, in order
    deliveries,   \* webhook HTTP requests sent, in order
    handled,      \* handleViolation invocations finished, by policy id
    dbErr,        \* policies whose pending lookup or insert hit a database error
    ticks,        \* ticks started, by worker
    wk,           \* each worker's position and locals
    hist          \* what each worker did in its current tick

VARIABLES
    rAction,      \* the remediation action invoked
    rKind,        \* provider.Type of the account it is invoked for
    rPc,          \* where the invocation stands
    rSeen,        \* resources of the listing consumed so far
    rGroups,      \* reservations / pages / zones opened so far
    rCount,       \* the function's local count
    rIssued,      \* resources a stop or terminate call was made for
    rBegun,       \* resources whose stop or terminate the cloud accepted
    rEssentialHit, \* a call was made for a resource carrying the Essential marker
    rLast,        \* the resource of the latest call
    rResult       \* what the invocation returned ("" while it runs)

remVars == <<rAction, rKind, rPc, rSeen, rGroups, rCount, rIssued, rBegun,
             rEssentialHit, rLast, rResult>>

VARIABLES
    mu,           \* Engine.mu: the caller holding the write lock ("" if none)
    eng,          \* the Engine call each caller is in, and its locals
    engHist       \* what completed reloads read, and the calls begun

engineVars == <<mu, eng, engHist>>

\* The rows and files the engine only reads, and the exploration's limits.
config == <<workers, tickLimit, policyType, policyEnabled, providerConnected,
            webhookEnabled, endpoint, regoFiles, engineVars>>

workerVars == <<config, opaPolicies, tickerC, cancelled, returns, spend,
                violations, activity, remCalls, deliveries, handled, dbErr,
                ticks, wk, hist>>

\* ---------------------------------------------------------- helper views
NoViolation ==
    [id |-> 0, policy |-> "", resource |-> "", resourceType |-> "",
     cloudProvider |-> "", severity |-> "", status |-> "",
     createdAt |-> 0, remediatedAt |-> 0]

IdleLocals ==
    [pc |-> "wait", policies |-> <<>>, providers |-> <<>>, provIdx |-> 0,
     polIdx |-> 0, violation |-> NoViolation, rv |-> NoViolation,
     webhooks |-> <<>>, whIdx |-> 0]

EmptyHist ==
    [spend0 |-> [a \in ProviderIds |-> 0], fetched |-> {}, fetchFailed |-> {},
     evaluated |-> {}, breached |-> {}, aborted |-> FALSE,
     spendWrites |-> [a \in ProviderIds |-> 0], notifyErr |-> {},
     heldLate |-> FALSE, late |-> FALSE, afterAbort |-> FALSE]

VIds == 1..Len(violations)

\* WHERE policy_id = ? AND status = 'pending'
PendingExists_WrongStatus(vs, p) ==
    \E i \in 1..Len(vs) : vs[i].policy = p /\ vs[i].status = "remediated"

PendingExists_NeverFound(vs, p) == FALSE

PendingExists_FirstAccountOnly(vs, p) ==
    \E i \in 1..Len(vs) :
        vs[i].policy = p /\ vs[i].status = "pending" /\ vs[i].resource = "a1"

PendingExists_AnyStatus(vs, p) ==
    \E i \in 1..Len(vs) : vs[i].policy = p

PendingExists(vs, p) ==
    \E i \in 1..Len(vs) : vs[i].policy = p /\ vs[i].status = "pending"

\* WHERE enabled = true
EnabledPolicies == SelectSeq(PolicyOrder, LAMBDA p : policyEnabled[p])
\* WHERE status = 'connected'
ConnectedProviders == SelectSeq(ProviderOrder, LAMBDA a : providerConnected[a])
\* WHERE organization_id = ? AND enabled = true
EnabledWebhooks(org) ==
    SelectSeq(WebhookOrder, LAMBDA h : WebhookOrg(h) = org /\ webhookEnabled[h])

\* The remediation action remediate picks for a policy type ("" = none).
RemediationAction_Swapped(t) ==
    CASE t = "max_spend" -> "StopIdleResources"
      [] t = "block_instance_type" -> "TerminateOversizedInstances"
      [] t = "auto_stop_idle" -> "StopNonEssentialResources"
      [] OTHER -> ""

RemediationAction(t) ==
    CASE t = "max_spend" -> "StopNonEssentialResources"
      [] t = "block_instance_type" -> "TerminateOversizedInstances"
      [] t = "auto_stop_idle" -> "StopIdleResources"
      [] OTHER -> ""

\* ------------------------------------------------------------ the worker
\* Start: the goroutine is at the first w.run(ctx) or at the select.
AtSelect_Always(me) == TRUE

AtSelect(me) == me.pc = "wait"

\* Start: the immediate first run, then one run per value received from
\* ticker.C (the select may take it even when ctx.Done() is ready too).
Start_Tick(w) ==
    /\ ticks[w] < tickLimit
    /\ \/ wk[w].pc = "start" /\ UNCHANGED tickerC
       \/ /\ wk[w].pc # "start"
          /\ AtSelect(wk[w])
          /\ tickerC[w] = 1
          /\ tickerC' = [tickerC EXCEPT ![w] = 0]
    /\ ticks' = [ticks EXCEPT ![w] = @ + 1]
    /\ wk' = [wk EXCEPT ![w] = [IdleLocals EXCEPT !.pc = "run"]]
    /\ hist' = [hist EXCEPT ![w] = [EmptyHist EXCEPT !.spend0 = spend,
                                                     !.late = hist[w].heldLate,
                                                     !.afterAbort = hist[w].aborted]]
    /\ UNCHANGED remVars
    /\ UNCHANGED <<config, opaPolicies, cancelled, returns, spend, violations, activity,
                   remCalls, deliveries, handled, dbErr>>

\* time.Ticker: the interval has passed while the worker waits in the select;
\* the channel holds one value.
Ticker_Fire(w) ==
    /\ wk[w].pc = "wait"
    /\ tickerC[w] = 0
    /\ ticks[w] <= tickLimit
    /\ tickerC' = [tickerC EXCEPT ![w] = 1]
    /\ UNCHANGED remVars
    /\ UNCHANGED <<config, opaPolicies, cancelled, returns, spend, violations, activity,
                   remCalls, deliveries, handled, dbErr, ticks, wk, hist>>

\* run: what a failed listing query does to the worker's position.
AfterListingError_Exit(me) == [me EXCEPT !.pc = "stopped"]

AfterListingError(me) == [me EXCEPT !.pc = "wait"]

\* run: load the enabled policies and the connected providers; either query
\* failing ends the tick.
run(w) ==
    /\ wk[w].pc = "run"
    /\ \E res \in {"ok", "policiesErr", "providersErr"} :
        IF res = "ok"
        THEN /\ wk' = [wk EXCEPT ![w] = [@ EXCEPT !.pc = "provider",
                            !.policies = EnabledPolicies,
                            !.providers = ConnectedProviders,
                            !.provIdx = 1]]
             /\ UNCHANGED <<hist, returns>>
        ELSE /\ wk' = [wk EXCEPT ![w] = AfterListingError(@)]
             /\ hist' = [hist EXCEPT ![w] = [@ EXCEPT !.aborted = TRUE]]
             /\ returns' = [returns EXCEPT ![w] = @ + 1]
    /\ UNCHANGED remVars
    /\ UNCHANGED <<config, opaPolicies, tickerC, cancelled, spend, violations, activity,
                   remCalls, deliveries, handled, dbErr, ticks>>

\* run: the loop over the providers is exhausted; run returns.
run_Done(w) ==
    /\ wk[w].pc = "provider"
    /\ wk[w].provIdx > Len(wk[w].providers)
    /\ wk' = [wk EXCEPT ![w] = [@ EXCEPT !.pc = "wait"]]
    /\ returns' = [returns EXCEPT ![w] = @ + 1]
    /\ UNCHANGED remVars
    /\ UNCHANGED <<config, opaPolicies, tickerC, cancelled, spend, violations, activity,
                   remCalls, deliveries, handled, dbErr, ticks, hist>>

\* What a failed billing fetch does to the worker's position.
AfterFetchError_AbortTick(me) == [me EXCEPT !.pc = "wait"]

AfterFetchError_Continue(me) == [me EXCEPT !.pc = "policy", !.polIdx = 1]

AfterFetchError(me) == [me EXCEPT !.provIdx = @ + 1]

\* processProvider: provider.MonthlySpend after a successful fetch (every
\* Fetch*Billing returns "monthlySpend" as a float64, so the assertion holds).
MonthlySpendAfterFetch_Kept(old, fetched) == old

MonthlySpendAfterFetch(old, fetched) == fetched

\* processProvider: fetch the billing data; on error skip the provider, else
\* store the monthly spend and start on the policies. The fetched amount is
\* written as the number of the tick that fetched it.
processProvider(w) ==
    /\ wk[w].pc = "provider"
    /\ wk[w].provIdx <= Len(wk[w].providers)
    /\ LET me == wk[w]
           a == me.providers[me.provIdx]
       IN  IF ProviderKind(a) \notin KnownProviderKinds
           THEN /\ wk' = [wk EXCEPT ![w] = [me EXCEPT !.provIdx = @ + 1]]
                /\ UNCHANGED <<spend, hist>>
           ELSE \E res \in {"ok", "err"} :
                IF res = "err"
                THEN /\ wk' = [wk EXCEPT ![w] = AfterFetchError(me)]
                     /\ hist' = [hist EXCEPT ![w] = [@ EXCEPT
                            !.fetched = @ \cup {a}, !.fetchFailed = @ \cup {a}]]
                     /\ UNCHANGED spend
                ELSE /\ spend' = [spend EXCEPT ![a] = MonthlySpendAfterFetch(@, ticks[w])]
                     /\ wk' = [wk EXCEPT ![w] = [me EXCEPT !.pc = "policy", !.polIdx = 1]]
                     /\ hist' = [hist EXCEPT ![w] = [@ EXCEPT !.fetched = @ \cup {a},
                            !.spendWrites = [@ EXCEPT ![a] = @ + 1]]]
    /\ UNCHANGED remVars
    /\ UNCHANGED <<config, opaPolicies, tickerC, cancelled, returns, violations, activity,
                   remCalls, deliveries, handled, dbErr, ticks>>

\* processProvider: the loop over the policies is exhausted.
processProvider_Done(w) ==
    /\ wk[w].pc = "policy"
    /\ wk[w].polIdx > Len(wk[w].policies)
    /\ wk' = [wk EXCEPT ![w] = [@ EXCEPT !.pc = "provider", !.provIdx = @ + 1]]
    /\ UNCHANGED remVars
    /\ UNCHANGED <<config, opaPolicies, tickerC, cancelled, returns, spend, violations, activity,
                   remCalls, deliveries, handled, dbErr, ticks, hist>>

\* What a rule definition can be: no file, a module that does not compile, one
\* whose evaluation fails, one that evaluates.
\* "undefinedAllow" is a definition that compiles and evaluates but gives no
\* value to data.finopsbridge.policies.allow (a module of another package, as
\* the generated ones of package finopsbridge.policies.max_spend).
RuleKinds == {"absent", "uncompilable", "evalError", "undefinedAllow", "valid"}

\* Engine.EvaluatePolicy: the rego code it evaluates, from the cache or else
\* from the policy directory.
RegoCode(p) == IF opaPolicies[p] # "absent" THEN opaPolicies[p] ELSE regoFiles[p]

\* Engine.EvaluatePolicy: what it can return for the code: allowed without
\* error when there is none, an error when PrepareForEval or Eval fails, else
\* allowed or not as the rule decides on the input.
\* The values the query data.finopsbridge.policies.allow can have for the code
\* on some input: a boolean, or none when the rule is undefined.
AllowResults(code) ==
    IF code = "undefinedAllow" THEN {"undefined"} ELSE {"true", "false"}

\* Engine.EvaluatePolicy: allowed starts false, becomes the allow rule's value
\* when the query has a boolean result, and is set to false when the violation
\* rule is true.
Decision_UndefinedAllows(allow, violation) ==
    IF allow \in {"true", "undefined"} /\ ~violation THEN "allowed" ELSE "violated"

Decision(allow, violation) ==
    IF allow = "true" /\ ~violation THEN "allowed" ELSE "violated"

EvaluatePolicy_FailClosed(code) ==
    CASE code = "absent" -> {"violated"}
      [] code \in {"uncompilable", "evalError"} -> {"error"}
      [] OTHER -> {Decision(al, vi) : al \in AllowResults(code), vi \in BOOLEAN}

EvaluatePolicy(code) ==
    CASE code = "absent" -> {"allowed"}
      [] code \in {"uncompilable", "evalError"} -> {"error"}
      [] OTHER -> {Decision(al, vi) : al \in AllowResults(code), vi \in BOOLEAN}

\* evaluatePolicy: an error returns, not allowed goes to handleViolation, allowed
\* goes on to the next policy.
AfterEvaluation_ErrorEndsAccount(me, res) ==
    IF res = "violated" THEN [me EXCEPT !.pc = "lookup"]
    ELSE IF res = "error" THEN [me EXCEPT !.pc = "provider", !.provIdx = @ + 1]
    ELSE [me EXCEPT !.polIdx = @ + 1]

AfterEvaluation(me, res) ==
    IF res = "violated" THEN [me EXCEPT !.pc = "lookup"]
    ELSE [me EXCEPT !.polIdx = @ + 1]

\* processProvider: the test that lets a policy through to evaluatePolicy.
SameOrganization_Any(p, a) == TRUE

SameOrganization(p, a) == PolicyOrg(p) = ProviderOrg(a)

\* processProvider / evaluatePolicy: skip a policy of another organization,
\* else evaluate it; only "not allowed, no error" reaches handleViolation.
evaluatePolicy(w) ==
    /\ wk[w].pc = "policy"
    /\ wk[w].polIdx <= Len(wk[w].policies)
    /\ LET me == wk[w]
           a == me.providers[me.provIdx]
           p == me.policies[me.polIdx]
       IN  IF ~SameOrganization(p, a)
           THEN /\ wk' = [wk EXCEPT ![w] = [me EXCEPT !.polIdx = @ + 1]]
                /\ UNCHANGED <<hist, opaPolicies>>
           ELSE \E res \in EvaluatePolicy(RegoCode(p)) :
                /\ opaPolicies' = [opaPolicies EXCEPT ![p] = RegoCode(p)]
                /\ wk' = [wk EXCEPT ![w] = AfterEvaluation(me, res)]
                /\ hist' = [hist EXCEPT ![w] = [@ EXCEPT
                        !.evaluated = @ \cup {<<a, p>>},
                        !.breached = IF res = "violated" THEN @ \cup {<<a, p>>} ELSE @]]
    /\ UNCHANGED remVars
    /\ UNCHANGED <<config, tickerC, cancelled, returns, spend, violations, activity,
                   remCalls, deliveries, handled, dbErr, ticks>>

\* handleViolation: look for a pending violation of the policy.
handleViolation_Lookup(w) ==
    /\ wk[w].pc = "lookup"
    /\ LET me == wk[w]
           p == me.policies[me.polIdx]
       IN  \E res \in {"query", "dbErr"} :
           IF res = "query" /\ ~PendingExists(violations, p)
           THEN /\ wk' = [wk EXCEPT ![w] = [me EXCEPT !.pc = "create"]]
                /\ UNCHANGED <<handled, dbErr>>
           ELSE /\ wk' = [wk EXCEPT ![w] = [me EXCEPT !.pc = "policy", !.polIdx = @ + 1]]
                /\ handled' = [handled EXCEPT ![p] = @ + 1]
                /\ dbErr' = IF res = "dbErr" THEN dbErr \cup {p} ELSE dbErr
    /\ UNCHANGED remVars
    /\ UNCHANGED <<config, opaPolicies, tickerC, cancelled, returns, spend, violations, activity,
                   remCalls, deliveries, ticks, hist>>

\* handleViolation: insert the new violation.
handleViolation_Create(w) ==
    /\ wk[w].pc = "create"
    /\ LET me == wk[w]
           a == me.providers[me.provIdx]
           p == me.policies[me.polIdx]
           v == [id |-> Len(violations) + 1, policy |-> p, resource |-> a,
                 resourceType |-> "cloud_provider", cloudProvider |-> ProviderKind(a),
                 severity |-> "high", status |-> "pending",
                 createdAt |-> ticks[w], remediatedAt |-> 0]
       IN  \E res \in {"ok", "dbErr"} :
           IF res = "ok"
           THEN /\ violations' = Append(violations, v)
                /\ wk' = [wk EXCEPT ![w] = [me EXCEPT !.pc = "activity", !.violation = v]]
                /\ UNCHANGED <<handled, dbErr>>
           ELSE /\ wk' = [wk EXCEPT ![w] = [me EXCEPT !.pc = "policy", !.polIdx = @ + 1]]
                /\ handled' = [handled EXCEPT ![p] = @ + 1]
                /\ dbErr' = dbErr \cup {p}
                /\ UNCHANGED violations
    /\ UNCHANGED remVars
    /\ UNCHANGED <<config, opaPolicies, tickerC, cancelled, returns, spend, activity,
                   remCalls, deliveries, ticks, hist>>

\* handleViolation: the "policy_violation" activity log entry.
handleViolation_ActivityLog(w) ==
    /\ wk[w].pc = "activity"
    /\ LET me == wk[w]
           p == me.policies[me.polIdx]
       IN  /\ activity' = Append(activity,
                [org |-> PolicyOrg(p), type |-> "policy_violation",
                 policy |-> p, vid |-> me.violation.id, createdAt |-> ticks[w]])
           /\ wk' = [wk EXCEPT ![w] = [me EXCEPT !.pc = "remediate", !.rv = me.violation]]
    /\ UNCHANGED remVars
    /\ UNCHANGED <<config, opaPolicies, tickerC, cancelled, returns, spend, violations,
                   remCalls, deliveries, handled, dbErr, ticks, hist>>

\* remediate: where it goes after the action returned: an error returns to
\* handleViolation, success goes on to mark the violation remediated.
AfterRemediation_ErrorIgnored(ok) == "save"

AfterRemediation_LogBeforeSave(ok) == IF ok THEN "remlog" ELSE "webhooks"

AfterRemediation(ok) == IF ok THEN "save" ELSE "webhooks"

\* remediate: the action for the policy type; require_tags returns at once, an
\* error returns, anything else goes on to mark the violation remediated.
remediate(w) ==
    /\ wk[w].pc = "remediate"
    /\ LET me == wk[w]
           a == me.providers[me.provIdx]
           p == me.policies[me.polIdx]
           t == policyType[p]
           act == RemediationAction(t)
       IN  IF t = "require_tags"
           THEN /\ wk' = [wk EXCEPT ![w] = [me EXCEPT !.pc = "webhooks"]]
                /\ UNCHANGED remCalls
           ELSE IF act = ""
           THEN /\ wk' = [wk EXCEPT ![w] = [me EXCEPT !.pc = "save"]]
                /\ UNCHANGED remCalls
           ELSE \E ok \in BOOLEAN :
                /\ remCalls' = Append(remCalls,
                      [policy |-> p, provider |-> a, action |-> act,
                       vid |-> me.rv.id, ok |-> ok, tick |-> ticks[w]])
                /\ wk' = [wk EXCEPT ![w] =
                      [me EXCEPT !.pc = AfterRemediation(ok)]]
    /\ UNCHANGED remVars
    /\ UNCHANGED <<config, opaPolicies, tickerC, cancelled, returns, spend, violations, activity,
                   deliveries, handled, dbErr, ticks, hist>>

\* The row remediate saves: its copy of the violation, marked remediated.
RemediatedCopy_NoTimestamp(v, now) == [v EXCEPT !.status = "remediated"]

RemediatedCopy(v, now) == [v EXCEPT !.status = "remediated", !.remediatedAt = now]

\* remediate: DB.Save of the copy (every column is written).
remediate_Save(w) ==
    /\ wk[w].pc = "save"
    /\ LET me == wk[w]
           row == RemediatedCopy(me.rv, ticks[w])
       IN  /\ violations' = [violations EXCEPT ![row.id] = row]
           /\ wk' = [wk EXCEPT ![w] = [me EXCEPT !.pc = "remlog", !.rv = row]]
    /\ UNCHANGED remVars
    /\ UNCHANGED <<config, opaPolicies, tickerC, cancelled, returns, spend, activity,
                   remCalls, deliveries, handled, dbErr, ticks, hist>>

\* remediate: the "remediation" activity log entry.
remediate_ActivityLog(w) ==
    /\ wk[w].pc = "remlog"
    /\ LET me == wk[w]
           p == me.policies[me.polIdx]
       IN  /\ activity' = Append(activity,
                [org |-> PolicyOrg(p), type |-> "remediation",
                 policy |-> p, vid |-> me.rv.id, createdAt |-> ticks[w]])
           /\ wk' = [wk EXCEPT ![w] = [me EXCEPT !.pc = "webhooks"]]
    /\ UNCHANGED remVars
    /\ UNCHANGED <<config, opaPolicies, tickerC, cancelled, returns, spend, violations,
                   remCalls, deliveries, handled, dbErr, ticks, hist>>

\* sendWebhooks: load the organization's enabled webhooks and the policy; a
\* failing query ends the notification.
sendWebhooks(w) ==
    /\ wk[w].pc = "webhooks"
    /\ LET me == wk[w]
           p == me.policies[me.polIdx]
       IN  \E res \in {"ok", "dbErr"} :
           IF res = "ok"
           THEN /\ wk' = [wk EXCEPT ![w] = [me EXCEPT !.pc = "deliver",
                        !.webhooks = EnabledWebhooks(PolicyOrg(p)), !.whIdx = 1]]
                /\ UNCHANGED handled
           ELSE /\ wk' = [wk EXCEPT ![w] = [me EXCEPT !.pc = "policy", !.polIdx = @ + 1,
                        !.violation = NoViolation, !.rv = NoViolation]]
                /\ handled' = [handled EXCEPT ![p] = @ + 1]
    /\ hist' = [hist EXCEPT ![w] = [@ EXCEPT !.notifyErr =
                    IF wk'[w].pc = "deliver" THEN @ ELSE @ \cup {wk[w].violation.id}]]
    /\ UNCHANGED remVars
    /\ UNCHANGED <<config, opaPolicies, tickerC, cancelled, returns, spend, violations, activity,
                   remCalls, deliveries, dbErr, ticks>>

\* How a POST to a webhook URL can end: a 2xx response, another status, the
\* client's timeout, a connection error.
EndpointOutcomes == {"2xx", "500", "timeout", "refused"}

\* sendWebhooks: the loop after one delivery, whatever sendWebhookRequest
\* returned.
AfterDelivery_StopOnFailure(me, outcome) ==
    IF outcome = "2xx" THEN [me EXCEPT !.whIdx = @ + 1]
    ELSE [me EXCEPT !.whIdx = Len(me.webhooks) + 1]

AfterDelivery(me, outcome) == [me EXCEPT !.whIdx = @ + 1]

\* sendWebhooks / sendWebhookRequest: one POST per webhook, whatever it returns.
sendWebhookRequest(w) ==
    /\ wk[w].pc = "deliver"
    /\ wk[w].whIdx <= Len(wk[w].webhooks)
    /\ LET me == wk[w]
           h == me.webhooks[me.whIdx]
       IN  /\ deliveries' = Append(deliveries,
                [webhook |-> h, vid |-> me.violation.id,
                 status |-> me.violation.status, timestamp |-> ticks[w],
                 outcome |-> endpoint[h]])
           /\ wk' = [wk EXCEPT ![w] = AfterDelivery(me, endpoint[h])]
    /\ UNCHANGED remVars
    /\ UNCHANGED <<config, opaPolicies, tickerC, cancelled, returns, spend, violations, activity,
                   remCalls, handled, dbErr, ticks, hist>>

\* sendWebhooks: every webhook was tried; handleViolation returns.
sendWebhooks_Done(w) ==
    /\ wk[w].pc = "deliver"
    /\ wk[w].whIdx > Len(wk[w].webhooks)
    /\ LET me == wk[w]
           p == me.policies[me.polIdx]
       IN  /\ wk' = [wk EXCEPT ![w] = [me EXCEPT !.pc = "policy", !.polIdx = @ + 1,
                        !.violation = NoViolation, !.rv = NoViolation,
                        !.webhooks = <<>>, !.whIdx = 0]]
           /\ handled' = [handled EXCEPT ![p] = @ + 1]
    /\ UNCHANGED remVars
    /\ UNCHANGED <<config, opaPolicies, tickerC, cancelled, returns, spend, violations, activity,
                   remCalls, deliveries, dbErr, ticks, hist>>

\* The external actor marks a pending violation ignored.
IgnoreViolation(v) ==
    /\ violations[v].status = "pending"
    /\ violations' = [violations EXCEPT ![v].status = "ignored"]
    /\ UNCHANGED remVars
    /\ UNCHANGED <<config, opaPolicies, tickerC, cancelled, returns, spend, activity,
                   remCalls, deliveries, handled, dbErr, ticks, wk, hist>>

\* ------------------------------------------- scheduling and shutdown
\* time.Ticker: the interval has passed while run is executing; the channel
\* holds the value until the loop is back at the select.
Ticker_FireDuringRun(w) ==
    /\ wk[w].pc \notin {"start", "wait", "stopped", "exited"}
    /\ tickerC[w] = 0
    /\ ticks[w] <= tickLimit
    /\ tickerC' = [tickerC EXCEPT ![w] = 1]
    /\ hist' = [hist EXCEPT ![w] = [@ EXCEPT !.heldLate = TRUE]]
    /\ UNCHANGED remVars
    /\ UNCHANGED <<config, opaPolicies, cancelled, returns, spend, violations, activity,
                   remCalls, deliveries, handled, dbErr, ticks, wk>>

\* main: a termination signal arrives and cancel() closes ctx.Done().
Cancel ==
    /\ ~cancelled
    /\ cancelled' = TRUE
    /\ UNCHANGED remVars
    /\ UNCHANGED <<config, opaPolicies, tickerC, returns, spend, violations, activity,
                   remCalls, deliveries, handled, dbErr, ticks, wk, hist>>

\* Start: the select takes ctx.Done() and Start returns.
Start_Return(w) ==
    /\ wk[w].pc = "wait"
    /\ cancelled
    /\ wk' = [wk EXCEPT ![w] = [@ EXCEPT !.pc = "stopped"]]
    /\ UNCHANGED remVars
    /\ UNCHANGED <<config, opaPolicies, tickerC, cancelled, returns, spend, violations, activity,
                   remCalls, deliveries, handled, dbErr, ticks, hist>>

\* main: after cancel() and app.Shutdown() main returns without waiting for the
\* worker goroutine; the process ends wherever the worker stands.
main_Exit(w) ==
    /\ cancelled
    /\ wk[w].pc # "exited"
    /\ wk' = [wk EXCEPT ![w] = [@ EXCEPT !.pc = "exited"]]
    /\ UNCHANGED remVars
    /\ UNCHANGED <<config, opaPolicies, tickerC, cancelled, returns, spend, violations, activity,
                   remCalls, deliveries, handled, dbErr, ticks, hist>>

\* http.Client{Timeout: 10 * time.Second}
WebhookTimeout == 10

\* The deadline, in seconds, of each kind of outbound call (0: none). The ctx
\* handed to the billing and remediation functions is
\* context.WithCancel(context.Background()) and their clients set no timeout.
CallTimeout(call) == IF call = "webhook" THEN WebhookTimeout ELSE 0

\* The outbound call the worker is about to make ("" when none).
PendingCall(w) ==
    LET me == wk[w]
    IN  IF me.pc = "provider" /\ me.provIdx <= Len(me.providers) THEN "fetch"
        ELSE IF me.pc = "remediate"
                /\ RemediationAction(policyType[me.policies[me.polIdx]]) # ""
        THEN "remediation"
        ELSE IF me.pc = "deliver" /\ me.whIdx <= Len(me.webhooks) THEN "webhook"
        ELSE ""

\* A call without deadline to an endpoint that never answers.
Call_Blocks(w) ==
    /\ PendingCall(w) # ""
    /\ CallTimeout(PendingCall(w)) = 0
    /\ wk' = [wk EXCEPT ![w] = [@ EXCEPT !.pc = "blocked"]]
    /\ UNCHANGED remVars
    /\ UNCHANGED <<config, opaPolicies, tickerC, cancelled, returns, spend, violations, activity,
                   remCalls, deliveries, handled, dbErr, ticks, hist>>

\* ------------------------------------------------- remediation actions
\* count >= 5 / maxStops := 5
RemediationCap == 5

RemediationActions ==
    {"StopNonEssentialResources", "TerminateOversizedInstances", "StopIdleResources"}

\* The provider kinds each action has a case for.
Supported(action, kind) ==
    IF action = "StopIdleResources" THEN kind \in {"aws", "azure", "gcp"}
    ELSE kind \in {"aws", "azure", "gcp", "oci", "ibm"}

\* aws lists reservations of instances, azure pages of VMs, gcp zones of
\* instances; oci and ibm list the instances in one response.
Grouped(kind) == kind \in {"aws", "azure", "gcp"}

\* Instance names, as sequences of characters.
NameExact == <<"e","s","s","e","n","t","i","a","l">>
NamePrefix == <<"E","s","s","e","n","t","i","a","l","-","d","b">>
NameSuffix == <<"d","b","-","E","S","S","E","N","T","I","A","L">>
NameMiddle == <<"m","y","-","e","s","s","e","n","t","i","a","l","-","d","b">>
NameShort == <<"w","e","b","-","1">>
Names == {NameExact, NamePrefix, NameSuffix, NameMiddle, NameShort}

\* The Essential tag / label of a resource: absent, "true" or another value.
TagValues == {"absent", "true", "false"}
Resources == [name : Names, tag : TagValues]
\* The resources a listing of the given provider kind is drawn from (only the
\* ibm functions read the name).
ListedResources(kind) ==
    IF kind = "ibm" THEN Resources ELSE [name : {NameShort}, tag : TagValues]
NoResource == [name |-> <<>>, tag |-> ""]

UpperCase == <<"A","B","C","D","E","F","G","H","I","J","K","L","M",
               "N","O","P","Q","R","S","T","U","V","W","X","Y","Z">>
LowerCase == <<"a","b","c","d","e","f","g","h","i","j","k","l","m",
               "n","o","p","q","r","s","t","u","v","w","x","y","z">>

\* c + 32 for 'A' <= c <= 'Z', else c
LowerChar(c) ==
    IF \E i \in 1..Len(UpperCase) : UpperCase[i] = c
    THEN LowerCase[CHOOSE i \in 1..Len(UpperCase) : UpperCase[i] = c]
    ELSE c

LowerString(s) == [i \in 1..Len(s) |-> LowerChar(s[i])]

\* containsEssential: the lower-cased string is, starts with or ends with
\* "essential".
containsEssential(s) ==
    LET lower == LowerString(s)
        n == Len(lower)
    IN  n >= 9 /\ (\/ lower = NameExact
                   \/ (n > 9 /\ (\/ SubSeq(lower, 1, 9) = NameExact
                                 \/ SubSeq(lower, n - 8, n) = NameExact)))

\* hasEssential, as each provider's functions compute it: the Essential tag
\* (aws, azure, oci) or the essential label (gcp) equal to "true"; for ibm the
\* name pattern.
hasEssential(kind, r) ==
    IF kind = "ibm" THEN containsEssential(r.name) ELSE r.tag = "true"

\* The checks besides hasEssential a resource must pass before the call: the
\* action's own condition (size level, idle metrics, IdleCheckEnabled, running
\* status) ...
EligibleChoices(action, kind) ==
    IF action = "StopNonEssentialResources" /\ kind # "ibm" THEN {TRUE} ELSE BOOLEAN

\* ... and the identifiers the call needs (Name, ID, resource group).
CallableChoices(kind) ==
    IF kind \in {"azure", "oci", "ibm"} THEN BOOLEAN ELSE {TRUE}

\* How one stop / terminate call can end: azure begins the operation and then
\* polls it, the others make one request.
CallOutcomes(kind) ==
    IF kind = "azure" THEN {"beginErr", "pollErr", "ok"} ELSE {"err", "ok"}

\* The cloud accepted the operation for the resource.
Accepted(outcome) == outcome \in {"ok", "pollErr"}

\* The Essential marker of a resource, as documented: the Essential tag or
\* label equal to "true"; for ibm also a name that contains "essential",
\* whatever the case.
CarriesEssentialMarker(kind, r) ==
    \/ r.tag = "true"
    \/ /\ kind = "ibm"
       /\ LET lower == LowerString(r.name)
          IN  \E i \in 1..Len(lower) :
                 i + 8 <= Len(lower) /\ SubSeq(lower, i, i + 8) = NameExact

Rem_Return(res) ==
    /\ rPc' = "done"
    /\ rResult' = res

\* StopNonEssentialResources / TerminateOversizedInstances / StopIdleResources:
\* the switch on provider.Type, then credentials, client and (aws, oci, ibm,
\* gcp zones) the listing request.
Rem_Dispatch ==
    /\ rPc = "start"
    /\ IF ~Supported(rAction, rKind)
       THEN Rem_Return("nil")
       ELSE \E res \in {"ok", "err"} :
            IF res = "err" THEN Rem_Return("err")
            ELSE /\ rPc' = IF Grouped(rKind) THEN "outer" ELSE "inner"
                 /\ rResult' = rResult
    /\ UNCHANGED <<rAction, rKind, rSeen, rGroups, rCount, rIssued, rBegun,
                   rEssentialHit, rLast>>
    /\ UNCHANGED workerVars

\* The outer loop: over the reservations (aws), the pages (azure, whose
\* NextPage can fail) or the zones (gcp, which stops at the cap and skips a
\* zone whose instances it cannot list).
Rem_NextGroup ==
    /\ rPc = "outer"
    /\ \/ /\ Rem_Return("nil")
          /\ UNCHANGED rGroups
       \/ /\ rGroups < MaxGroups
          /\ IF rKind = "gcp" /\ rCount >= RemediationCap
             THEN Rem_Return("nil") /\ UNCHANGED rGroups
             ELSE \E res \in {"ok", "err"} :
                  /\ rGroups' = rGroups + 1
                  /\ IF res = "ok" THEN rPc' = "inner" /\ rResult' = rResult
                     ELSE IF rKind = "azure" THEN Rem_Return("err")
                     ELSE IF rKind = "gcp" THEN UNCHANGED <<rPc, rResult>>
                     ELSE rPc' = "inner" /\ rResult' = rResult
    /\ UNCHANGED <<rAction, rKind, rSeen, rCount, rIssued, rBegun,
                   rEssentialHit, rLast>>
    /\ UNCHANGED workerVars

\* The inner loop has no further resource.
Rem_GroupDone ==
    /\ rPc = "inner"
    /\ IF Grouped(rKind) THEN rPc' = "outer" /\ rResult' = rResult
       ELSE Rem_Return("nil")
    /\ UNCHANGED <<rAction, rKind, rSeen, rGroups, rCount, rIssued, rBegun,
                   rEssentialHit, rLast>>
    /\ UNCHANGED workerVars

\* What the function does after a stop / terminate call: it prints a failure
\* and goes on with the next resource.
AfterCall_ErrorReturns(kind, outcome) == IF outcome = "ok" THEN "next" ELSE "return"

AfterCall(kind, outcome) == "next"

\* The inner loop's next resource: break at the cap; skip it when it is not
\* eligible, has the Essential marker or lacks an identifier; else make the
\* call and count it when it succeeded.
Rem_Resource ==
    /\ rPc = "inner"
    /\ rSeen < MaxResources
    /\ rSeen' = rSeen + 1
    /\ \E r \in ListedResources(rKind), eligible \in EligibleChoices(rAction, rKind),
          callable \in CallableChoices(rKind), outcome \in CallOutcomes(rKind) :
        IF rCount >= RemediationCap
        THEN /\ IF Grouped(rKind) THEN rPc' = "outer" /\ rResult' = rResult
                ELSE Rem_Return("nil")
             /\ UNCHANGED <<rCount, rIssued, rBegun, rEssentialHit, rLast>>
        ELSE IF ~eligible \/ hasEssential(rKind, r) \/ ~callable
        THEN UNCHANGED <<rPc, rResult, rCount, rIssued, rBegun, rEssentialHit, rLast>>
        ELSE /\ rIssued' = rIssued + 1
             /\ rBegun' = IF Accepted(outcome) THEN rBegun + 1 ELSE rBegun
             /\ rCount' = IF outcome = "ok" THEN rCount + 1 ELSE rCount
             /\ rEssentialHit' = (rEssentialHit \/ CarriesEssentialMarker(rKind, r))
             /\ rLast' = r
             /\ IF AfterCall(rKind, outcome) = "return" THEN Rem_Return("err")
                ELSE UNCHANGED <<rPc, rResult>>
    /\ UNCHANGED <<rAction, rKind, rGroups>>
    /\ UNCHANGED workerVars

\* ------------------------------------------------------------ the engine
\* The goroutines that call the Engine: the enforcement worker evaluates,
\* WatchForChanges reloads, and two request handlers save or reload.
EngineCallers == {"worker", "watch", "api1", "api2"}
ApiCallers == {"api1", "api2"}
\* The policy ids evaluated, the one among them whose definition is saved and
\* changed (the other's file is read by every reload and stays as it is), and
\* the definitions saved.
EnginePolicyIds == {"p1", "p2"}
ChangedPolicyIds == {"p1"}
SavedDefinitions == {"valid", "undefinedAllow"}

NotRead == [p \in PolicyIds |-> "none"]
IdleCall == [op |-> "", pc |-> "idle", name |-> "", code |-> "",
             files |-> <<>>, next |-> 1, read |-> NotRead]
EmptyEngHist == [loaded |-> NotRead, gone |-> [p \in PolicyIds |-> 0],
                 saved |-> {}, calls |-> 0]

\* What the engine's steps leave alone.
engineFrame == <<workers, tickLimit, policyType, policyEnabled, providerConnected,
                 webhookEnabled, endpoint, tickerC, cancelled, returns, spend,
                 violations, activity, remCalls, deliveries, handled, dbErr,
                 ticks, wk, hist, remVars>>

CanBegin(t) == eng[t].pc = "idle" /\ engHist.calls < MaxEngineCalls
\* The definition of p in the directory changed: what a reload read is dated.
StoreChanged(h, p) == [h EXCEPT !.loaded[p] = "none", !.gone[p] = 0, !.calls = @ + 1]

\* os.ReadDir: the .rego files of the directory, in directory order.
ReadDir(files) == SelectSeq(PolicyOrder, LAMBDA p : files[p] # "absent")
ListedIn(c) == {c.files[i] : i \in 1..Len(c.files)}

\* loadPoliciesFromDisk, on taking the lock: the map is kept as it is.
CacheAtReloadStart_Cleared(cache) == [p \in PolicyIds |-> "absent"]
CacheAtReloadStart(cache) == cache

\* SavePolicy: os.WriteFile, outside the lock.
SavePolicy_WriteFile(t, p, c) ==
    /\ CanBegin(t)
    /\ regoFiles' = [regoFiles EXCEPT ![p] = c]
    /\ eng' = [eng EXCEPT ![t] = [IdleCall EXCEPT !.op = "SavePolicy", !.pc = "cache",
                                                  !.name = p, !.code = c]]
    /\ engHist' = [StoreChanged(engHist, p) EXCEPT !.saved = @ \cup {p}]
    /\ UNCHANGED <<opaPolicies, mu, engineFrame>>

\* SavePolicy: e.policies[name] = regoCode under the lock, and return.
SavePolicy_Cache(t) ==
    /\ eng[t].op = "SavePolicy" /\ eng[t].pc = "cache"
    /\ mu = ""
    /\ opaPolicies' = [opaPolicies EXCEPT ![eng[t].name] = eng[t].code]
    /\ eng' = [eng EXCEPT ![t] = IdleCall]
    /\ engHist' = [engHist EXCEPT !.loaded[eng[t].name] = "none"]
    /\ UNCHANGED <<regoFiles, mu, engineFrame>>

\* loadPoliciesFromDisk: os.ReadDir, before the lock is taken.
loadPoliciesFromDisk_ReadDir(t) ==
    /\ CanBegin(t)
    /\ eng' = [eng EXCEPT ![t] = [IdleCall EXCEPT !.op = "ReloadPolicies", !.pc = "lock",
                                                  !.files = ReadDir(regoFiles)]]
    /\ engHist' = [engHist EXCEPT !.calls = @ + 1]
    /\ UNCHANGED <<regoFiles, opaPolicies, mu, engineFrame>>

\* ReloadPolicies, called by the CreatePolicy, UpdatePolicy and DeletePolicy
\* handlers and by LoadPoliciesFromDB.
ReloadPolicies(t) == loadPoliciesFromDisk_ReadDir(t)

\* WatchForChanges: a tick of its 30-second ticker calls ReloadPolicies.
WatchForChanges == loadPoliciesFromDisk_ReadDir("watch")

\* loadPoliciesFromDisk: e.mu.Lock().
loadPoliciesFromDisk_Lock(t) ==
    /\ eng[t].op = "ReloadPolicies" /\ eng[t].pc = "lock"
    /\ mu = ""
    /\ mu' = t
    /\ opaPolicies' = CacheAtReloadStart(opaPolicies)
    /\ eng' = [eng EXCEPT ![t].pc = "files"]
    /\ UNCHANGED <<regoFiles, engHist, engineFrame>>

\* loadPoliciesFromDisk: one round of the loop over the listed files. A file
\* that can no longer be read is passed over.
loadPoliciesFromDisk_File(t) ==
    /\ eng[t].op = "ReloadPolicies" /\ eng[t].pc = "files"
    /\ eng[t].next <= Len(eng[t].files)
    /\ LET p == eng[t].files[eng[t].next]
           content == regoFiles[p]
       IN  IF content = "absent"
           THEN /\ eng' = [eng EXCEPT ![t].next = @ + 1]
                /\ UNCHANGED opaPolicies
           ELSE /\ opaPolicies' = [opaPolicies EXCEPT ![p] = content]
                /\ eng' = [eng EXCEPT ![t].next = @ + 1, ![t].read[p] = content]
    /\ UNCHANGED <<regoFiles, mu, engHist, engineFrame>>

\* loadPoliciesFromDisk: the deferred e.mu.Unlock(), and return.
loadPoliciesFromDisk_Unlock(t) ==
    /\ eng[t].op = "ReloadPolicies" /\ eng[t].pc = "files"
    /\ eng[t].next > Len(eng[t].files)
    /\ mu' = ""
    /\ eng' = [eng EXCEPT ![t] = IdleCall]
    /\ engHist' = [engHist EXCEPT
           !.loaded = [p \in PolicyIds |->
                          IF eng[t].read[p] = "none" THEN @[p]
                          ELSE IF regoFiles[p] = eng[t].read[p] THEN eng[t].read[p]
                          ELSE "none"],
           !.gone = [p \in PolicyIds |->
                        IF p \notin ListedIn(eng[t]) /\ regoFiles[p] = "absent"
                           /\ opaPolicies[p] # "absent"
                        THEN @[p] + 1 ELSE @[p]]]
    /\ UNCHANGED <<regoFiles, opaPolicies, engineFrame>>

\* EvaluatePolicy: the read of e.policies[policyName] under the read lock.
EvaluatePolicy_Lookup(p) ==
    /\ CanBegin("worker")
    /\ mu = ""
    /\ eng' = [eng EXCEPT !["worker"] =
                  [IdleCall EXCEPT !.op = "EvaluatePolicy", !.name = p,
                                   !.code = opaPolicies[p],
                                   !.pc = IF opaPolicies[p] = "absent"
                                          THEN "readFile" ELSE "eval"]]
    /\ engHist' = [engHist EXCEPT !.calls = @ + 1]
    /\ UNCHANGED <<regoFiles, opaPolicies, mu, engineFrame>>

\* EvaluatePolicy, the id not in the map: os.ReadFile, outside any lock; with
\* no file it returns "policy not found".
EvaluatePolicy_ReadFile ==
    /\ eng["worker"].op = "EvaluatePolicy" /\ eng["worker"].pc = "readFile"
    /\ IF regoFiles[eng["worker"].name] = "absent"
       THEN eng' = [eng EXCEPT !["worker"] = IdleCall]
       ELSE eng' = [eng EXCEPT !["worker"].code = regoFiles[eng["worker"].name],
                               !["worker"].pc = "fill"]
    /\ UNCHANGED <<regoFiles, opaPolicies, mu, engHist, engineFrame>>

\* EvaluatePolicy: e.policies[policyName] = regoCode under the lock, with what
\* was read from the file.
EvaluatePolicy_Fill ==
    /\ eng["worker"].op = "EvaluatePolicy" /\ eng["worker"].pc = "fill"
    /\ mu = ""
    /\ opaPolicies' = [opaPolicies EXCEPT ![eng["worker"].name] = eng["worker"].code]
    /\ eng' = [eng EXCEPT !["worker"].pc = "eval"]
    /\ UNCHANGED <<regoFiles, mu, engHist, engineFrame>>

\* EvaluatePolicy: the queries over regoCode, and return of their decision.
EvaluatePolicy_Return ==
    /\ eng["worker"].op = "EvaluatePolicy" /\ eng["worker"].pc = "eval"
    /\ \E decision \in EvaluatePolicy(eng["worker"].code) :
           eng' = [eng EXCEPT !["worker"] = IdleCall]
    /\ UNCHANGED <<regoFiles, opaPolicies, mu, engHist, engineFrame>>

\* The policy directory changes under the engine: a definition is put there
\* or taken away by something other than SavePolicy.
PolicyDir_Write(p, c) ==
    /\ engHist.calls < MaxEngineCalls
    /\ regoFiles[p] # c
    /\ regoFiles' = [regoFiles EXCEPT ![p] = c]
    /\ engHist' = [StoreChanged(engHist, p) EXCEPT !.saved = @ \ {p}]
    /\ UNCHANGED <<opaPolicies, mu, eng, engineFrame>>

PolicyDir_Remove(p) ==
    /\ engHist.calls < MaxEngineCalls
    /\ regoFiles[p] # "absent"
    /\ regoFiles' = [regoFiles EXCEPT ![p] = "absent"]
    /\ engHist' = [StoreChanged(engHist, p) EXCEPT !.saved = @ \ {p}]
    /\ UNCHANGED <<opaPolicies, mu, eng, engineFrame>>

\* A new Engine: no call in progress, the lock free.
InitEngine ==
    /\ mu = ""
    /\ eng = [t \in EngineCallers |-> IdleCall]
    /\ engHist = EmptyEngHist

vars == <<workerVars, remVars>>

InitDB ==
    /\ InitEngine
    /\ \A p \in PolicyIds : ~policyEnabled[p] \/ PolicyOrg(p) # "o1" => policyType[p] = "max_spend"
    /\ spend = [a \in ProviderIds |-> 0]
    /\ violations = <<>>
    /\ activity = <<>>
    /\ remCalls = <<>>
    /\ deliveries = <<>>
    /\ handled = [p \in PolicyIds |-> 0]
    /\ dbErr = {}
    /\ ticks = [w \in WorkerIds |-> 0]
    /\ wk = [w \in WorkerIds |-> [IdleLocals EXCEPT !.pc = "start"]]
    /\ tickerC = [w \in WorkerIds |-> 0]
    /\ cancelled = FALSE
    /\ returns = [w \in WorkerIds |-> 0]
    /\ hist = [w \in WorkerIds |-> EmptyHist]

\* Webhooks h1 and h2 of the organization are enabled and h3 is not; h2's
\* endpoint answers 500; every policy has a rule that evaluates, in the cache.
InitEnv ==
    /\ webhookEnabled = [h \in WebhookIds |-> h # "h3"]
    /\ endpoint = [h \in WebhookIds |-> IF h = "h2" THEN "500" ELSE "2xx"]
    /\ regoFiles = [p \in PolicyIds |-> "valid"]
    /\ opaPolicies = regoFiles

\* No remediation invocation is being followed.
InitNoRem ==
    /\ rAction = ""
    /\ rKind = ""
    /\ rPc = "done"
    /\ rSeen = 0
    /\ rGroups = 0
    /\ rCount = 0
    /\ rIssued = 0
    /\ rBegun = 0
    /\ rEssentialHit = FALSE
    /\ rLast = NoResource
    /\ rResult = ""

\* One worker; policy p1 is shared by the accounts a1 and a2, p2 is disabled
\* and p3 belongs to another organization.
Init ==
    /\ workers = {"w1"}
    /\ tickLimit = MaxTicks
    /\ policyType \in [PolicyIds -> FollowedPolicyTypes]
    /\ policyEnabled = [p \in PolicyIds |-> p # "p2"]
    /\ providerConnected = [a \in ProviderIds |-> TRUE]
    /\ InitEnv
    /\ InitDB
    /\ InitNoRem

Next ==
    \/ \E w \in workers : Start_Tick(w)
    \/ \E w \in workers : Ticker_Fire(w)
    \/ \E w \in workers : run(w)
    \/ \E w \in workers : run_Done(w)
    \/ \E w \in workers : processProvider(w)
    \/ \E w \in workers : processProvider_Done(w)
    \/ \E w \in workers : evaluatePolicy(w)
    \/ \E w \in workers : handleViolation_Lookup(w)
    \/ \E w \in workers : handleViolation_Create(w)
    \/ \E w \in workers : handleViolation_ActivityLog(w)
    \/ \E w \in workers : remediate(w)
    \/ \E w \in workers : remediate_Save(w)
    \/ \E w \in workers : remediate_ActivityLog(w)
    \/ \E w \in workers : sendWebhooks(w)
    \/ \E w \in workers : sendWebhookRequest(w)
    \/ \E w \in workers : sendWebhooks_Done(w)
    \/ \E v \in VIds : IgnoreViolation(v)

Spec == Init /\ [][Next]_vars

\* One invocation of a remediation action, for every action and provider kind.
RemInit ==
    /\ workers = {}
    /\ tickLimit = 0
    /\ policyType = [p \in PolicyIds |-> "max_spend"]
    /\ policyEnabled = [p \in PolicyIds |-> FALSE]
    /\ providerConnected = [a \in ProviderIds |-> FALSE]
    /\ InitEnv
    /\ InitDB
    /\ rAction \in RemediationActions
    /\ rKind \in KnownProviderKinds
    /\ rPc = "start"
    /\ rSeen = 0
    /\ rGroups = 0
    /\ rCount = 0
    /\ rIssued = 0
    /\ rBegun = 0
    /\ rEssentialHit = FALSE
    /\ rLast = NoResource
    /\ rResult = ""

RemNext ==
    \/ Rem_Dispatch
    \/ Rem_NextGroup
    \/ Rem_GroupDone
    \/ Rem_Resource

RemSpec == RemInit /\ [][RemNext]_vars

\* Two workers (two replicas of the process) on one database: one connected
\* account, policy p1 enabled, of any type.
ConcInit ==
    /\ workers = {"w1", "w2"}
    /\ tickLimit = ConcTicks
    /\ policyType \in [PolicyIds -> PolicyTypes]
    /\ policyEnabled = [p \in PolicyIds |-> p # "p2"]
    /\ providerConnected = [a \in ProviderIds |-> a = "a1"]
    /\ InitEnv
    /\ InitDB
    /\ InitNoRem

ConcSpec == ConcInit /\ [][Next]_vars

\* One worker, one tick, one connected account; p1 and p2 are both enabled
\* policies of its organization, with every kind of rule definition, cached or
\* only on disk.
EvalInit ==
    /\ workers = {"w1"}
    /\ tickLimit = ShortTicks
    /\ policyType \in [PolicyIds -> PolicyTypes]
    /\ policyType["p2"] \in {"require_tags"}
    /\ policyEnabled = [p \in PolicyIds |-> TRUE]
    /\ providerConnected = [a \in ProviderIds |-> a = "a1"]
    /\ webhookEnabled = [h \in WebhookIds |-> h \in {"h1", "h4"}]
    /\ endpoint = [h \in WebhookIds |-> "2xx"]
    /\ regoFiles \in [PolicyIds -> RuleKinds]
    /\ regoFiles["p3"] = "valid"
    /\ opaPolicies \in [PolicyIds -> RuleKinds]
    /\ \A p \in PolicyIds : opaPolicies[p] \in {"absent", regoFiles[p]}
    /\ opaPolicies["p3"] = "valid"
    /\ InitDB
    /\ InitNoRem

EvalSpec == EvalInit /\ [][Next]_vars

\* One worker, one tick, one connected account breaching max_spend policy p1;
\* the organization's three webhooks are enabled, each endpoint answering in
\* any of the ways.
FanoutInit ==
    /\ workers = {"w1"}
    /\ tickLimit = ShortTicks
    /\ policyType = [p \in PolicyIds |-> "max_spend"]
    /\ policyEnabled = [p \in PolicyIds |-> p # "p2"]
    /\ providerConnected = [a \in ProviderIds |-> a = "a1"]
    /\ webhookEnabled = [h \in WebhookIds |-> TRUE]
    /\ endpoint \in [WebhookIds -> EndpointOutcomes]
    /\ endpoint["h4"] = "2xx"
    /\ regoFiles = [p \in PolicyIds |-> "valid"]
    /\ opaPolicies = regoFiles
    /\ InitDB
    /\ InitNoRem

FanoutSpec == FanoutInit /\ [][Next]_vars

\* One worker and one account breaching max_spend policy p1, with runs that
\* can outlast the ticker's interval, calls that can go unanswered, and a
\* termination signal.
SchedInit ==
    /\ workers = {"w1"}
    /\ tickLimit = SchedTicks
    /\ policyType = [p \in PolicyIds |-> "max_spend"]
    /\ policyEnabled = [p \in PolicyIds |-> p = "p1"]
    /\ providerConnected = [a \in ProviderIds |-> a = "a1"]
    /\ webhookEnabled = [h \in WebhookIds |-> h = "h1"]
    /\ endpoint = [h \in WebhookIds |-> "2xx"]
    /\ regoFiles = [p \in PolicyIds |-> "valid"]
    /\ opaPolicies = regoFiles
    /\ InitDB
    /\ InitNoRem

SchedNext ==
    \/ Next
    \/ \E w \in workers : Ticker_FireDuringRun(w)
    \/ Cancel
    \/ \E w \in workers : Start_Return(w)
    \/ \E w \in workers : main_Exit(w)
    \/ \E w \in workers : Call_Blocks(w)

SchedSpec == SchedInit /\ [][SchedNext]_vars

\* The Engine alone, as Initialize leaves it: each of the two policy ids has
\* a definition in the directory, loaded into the map, or none; p1 is saved,
\* changed and removed while callers evaluate and reload.
OpaInit ==
    /\ workers = {}
    /\ tickLimit = 0
    /\ policyType = [p \in PolicyIds |-> "max_spend"]
    /\ policyEnabled = [p \in PolicyIds |-> FALSE]
    /\ providerConnected = [a \in ProviderIds |-> FALSE]
    /\ webhookEnabled = [h \in WebhookIds |-> FALSE]
    /\ endpoint = [h \in WebhookIds |-> "2xx"]
    /\ regoFiles \in [PolicyIds -> SavedDefinitions \cup {"absent"}]
    /\ \A p \in PolicyIds \ EnginePolicyIds : regoFiles[p] = "absent"
    /\ \A p \in EnginePolicyIds \ ChangedPolicyIds : regoFiles[p] \in {"valid", "absent"}
    /\ opaPolicies = regoFiles
    /\ InitDB
    /\ InitNoRem

OpaNext ==
    \/ \E t \in ApiCallers, p \in ChangedPolicyIds, c \in SavedDefinitions :
           SavePolicy_WriteFile(t, p, c)
    \/ \E t \in ApiCallers : SavePolicy_Cache(t)
    \/ \E t \in ApiCallers : ReloadPolicies(t)
    \/ WatchForChanges
    \/ \E t \in EngineCallers : loadPoliciesFromDisk_Lock(t)
    \/ \E t \in EngineCallers : loadPoliciesFromDisk_File(t)
    \/ \E t \in EngineCallers : loadPoliciesFromDisk_Unlock(t)
    \/ \E p \in EnginePolicyIds : EvaluatePolicy_Lookup(p)
    \/ EvaluatePolicy_ReadFile
    \/ EvaluatePolicy_Fill
    \/ EvaluatePolicy_Return
    \/ \E p \in ChangedPolicyIds, c \in SavedDefinitions : PolicyDir_Write(p, c)
    \/ \E p \in ChangedPolicyIds : PolicyDir_Remove(p)

OpaSpec == OpaInit /\ [][OpaNext]_vars

\* ------------------------------------------------------------- claims
RowsOf(p) == {v \in VIds : violations[v].policy = p}
PendingOf(p) == {v \in RowsOf(p) : violations[v].status = "pending"}
Idx(s) == 1..Len(s)
TickOver(w) == wk[w].pc = "wait" /\ ticks[w] >= 1 /\ ~hist[w].aborted

\* C1: in every state reached by ticks run one after another by the single
\* worker, interleaved with external ignore actions, each policy id has at most
\* one violation whose status is pending.
C1_AtMostOnePendingPerPolicy ==
    \A p \in PolicyIds : Cardinality(PendingOf(p)) <= 1

\* A policy with two rows, the older one ignored and the newer one pending.
C1_Witness ==
    \E v1 \in VIds, v2 \in VIds :
        /\ v1 < v2
        /\ violations[v1].policy = violations[v2].policy
        /\ violations[v1].status = "ignored"
        /\ violations[v2].status = "pending"

\* C2: a policy that has breached (one or more times, over one or more ticks),
\* none of whose violations is remediated or ignored and whose lookups and
\* insert met no database error, has exactly one violation row: the first
\* handleViolation created it and the later ones created none.
C2_DedupIdempotence ==
    \A p \in PolicyIds :
        (/\ handled[p] >= 1
         /\ p \notin dbErr
         /\ \A v \in RowsOf(p) : violations[v].status = "pending")
        => Cardinality(RowsOf(p)) = 1

\* After two ticks in both of which p1 breached: one row, created in tick 1.
C2_Witness ==
    /\ ticks["w1"] = 2
    /\ wk["w1"].pc = "wait"
    /\ handled["p1"] >= 3
    /\ "p1" \notin dbErr
    /\ hist["w1"].breached # {}
    /\ Cardinality(RowsOf("p1")) = 1
    /\ \A v \in RowsOf("p1") :
          violations[v].status = "pending" /\ violations[v].createdAt = 1

\* C3: whatever the interleaving of two concurrent handleViolation executions
\* for one policy id, at most one pending violation exists for that policy
\* (the lookup and the insert act as one atomic step).
C3_AtomicCheckThenCreate ==
    \A v1 \in VIds, v2 \in VIds :
        (v1 # v2 /\ violations[v1].policy = violations[v2].policy)
        => ~(violations[v1].status = "pending" /\ violations[v2].status = "pending")

\* C4: at the end of a tick in which the billing fetch of some account A
\* failed, every other connected account B was fetched, every enabled policy of
\* B's organization was evaluated for B, and every breach by B has a violation
\* row of that policy (unless the database refused the lookup or the insert).
C4_FetchFailureIsolated ==
    \A w \in workers :
        TickOver(w) =>
        \A A \in hist[w].fetchFailed :
        \A B \in {b \in ProviderIds : providerConnected[b]} \ {A} :
            /\ B \in hist[w].fetched
            /\ B \notin hist[w].fetchFailed =>
                /\ \A p \in PolicyIds :
                      (policyEnabled[p] /\ PolicyOrg(p) = ProviderOrg(B))
                      => <<B, p>> \in hist[w].evaluated
                /\ \A p \in PolicyIds :
                      <<B, p>> \in hist[w].breached
                      => (p \in dbErr \/ RowsOf(p) # {})

\* Tick 1: a1 (first in the list) failed and a2's breach created a row;
\* tick 2: a2 (last in the list) failed and a1's breach created a row.
C4_Witness ==
    /\ TickOver("w1")
    /\ ticks["w1"] = 2
    /\ hist["w1"].spend0["a1"] = 0
    /\ hist["w1"].fetchFailed = {"a2"}
    /\ \E v1 \in VIds, v2 \in VIds :
        /\ violations[v1].resource = "a2" /\ violations[v1].createdAt = 1
        /\ violations[v2].resource = "a1" /\ violations[v2].createdAt = 2

\* C5: for an account whose billing fetch failed in the current tick, the
\* stored monthly spend is what it was when the tick began, none of its
\* policies was evaluated, and no violation, activity log entry, remediation
\* call or webhook delivery of this tick is on its behalf.
C5_FailedFetchFrame ==
    \A w \in workers :
    \A a \in hist[w].fetchFailed :
        /\ spend[a] = hist[w].spend0[a]
        /\ \A p \in PolicyIds : <<a, p>> \notin hist[w].evaluated
        /\ \A v \in VIds :
              ~(violations[v].resource = a /\ violations[v].createdAt = ticks[w])
        /\ \A i \in Idx(remCalls) :
              ~(remCalls[i].provider = a /\ remCalls[i].tick = ticks[w])
        /\ \A i \in Idx(activity) :
              ~(violations[activity[i].vid].resource = a
                /\ activity[i].createdAt = ticks[w])
        /\ \A i \in Idx(deliveries) :
              ~(violations[deliveries[i].vid].resource = a
                /\ deliveries[i].timestamp = ticks[w])

\* Tick 2 is over; a1's fetch failed in it after succeeding (and a1 breaching,
\* with a violation, a remediation call and a delivery) in tick 1.
C5_Witness ==
    /\ TickOver("w1")
    /\ ticks["w1"] = 2
    /\ "a1" \in hist["w1"].fetchFailed
    /\ spend["a1"] = 1
    /\ \E v \in VIds : violations[v].resource = "a1"
    /\ \E i \in Idx(remCalls) : remCalls[i].provider = "a1"
    /\ \E i \in Idx(deliveries) : violations[deliveries[i].vid].resource = "a1"

\* C6: once the stored status of a violation is remediated or ignored, no step
\* changes its status or its remediated-at.
C6_TerminalStatusesStay ==
    [][\A v \in VIds :
          violations[v].status \in {"remediated", "ignored"}
          => /\ violations'[v].status = violations[v].status
             /\ violations'[v].remediatedAt = violations[v].remediatedAt]_vars

\* The violations whose remediation action returned an error.
FailedVids == {remCalls[i].vid : i \in {j \in Idx(remCalls) : ~remCalls[j].ok}}

\* Such a violation is never remediated: it is pending (or ignored by the
\* external actor), remediated-at is unset and it has no "remediation" entry.
C7_FailedStaysUnremediated ==
    \A v \in FailedVids :
        /\ violations[v].status \in {"pending", "ignored"}
        /\ violations[v].remediatedAt = 0
        /\ \A i \in Idx(activity) :
              ~(activity[i].type = "remediation" /\ activity[i].vid = v)

\* A step that invokes a remediation action does so for a policy none of whose
\* failed violations is still pending.
C7_NoCallWhileFailedPending ==
    Len(remCalls') > Len(remCalls) =>
        \A v \in VIds :
            (/\ v \in FailedVids
             /\ violations[v].policy = remCalls'[Len(remCalls')].policy)
            => violations[v].status # "pending"

\* C7: a violation whose remediation action returned an error is never stored
\* as remediated, keeps remediated-at unset and gets no "remediation" activity
\* log entry; and no remediation action is invoked for its policy while it is
\* still pending.
C7_NoAutomaticRetry ==
    /\ []C7_FailedStaysUnremediated
    /\ [][C7_NoCallWhileFailedPending]_vars

\* A failed remediation in tick 1, the violation still pending when tick 2
\* ended after the policy breached again.
C7_Witness ==
    /\ ticks["w1"] = 2
    /\ wk["w1"].pc = "wait"
    /\ hist["w1"].breached # {}
    /\ \E v \in FailedVids :
          violations[v].status = "pending" /\ violations[v].createdAt = 1

HasRemediationLog(v) ==
    \E i \in Idx(activity) : activity[i].type = "remediation" /\ activity[i].vid = v

C9_RemediationCap == rBegun <= RemediationCap

\* C10: no remediation action makes a stop or terminate call for a resource
\* that carries the Essential marker.
C10_EssentialNeverStopped == ~rEssentialHit

\* The policies the worker loads whose organization is that of account a.
PoliciesFor(a) == {p \in PolicyIds : policyEnabled[p] /\ PolicyOrg(p) = ProviderOrg(a)}
\* The accounts whose billing fetch succeeded in worker w's current tick.
FetchedOk(w) == hist[w].fetched \ hist[w].fetchFailed
\* No record exists on behalf of policy p.
NothingFor(p) ==
    /\ RowsOf(p) = {}
    /\ \A i \in Idx(activity) : activity[i].policy # p
    /\ \A i \in Idx(remCalls) : remCalls[i].policy # p
    /\ \A i \in Idx(deliveries) : violations[deliveries[i].vid].policy # p

\* C11: for an enabled policy whose rule definition is neither in the cache nor
\* in the policy directory, EvaluatePolicy returns allowed without error, the
\* policy never counts as breached, and no violation, activity log entry,
\* remediation call or webhook delivery exists for it.
C11_AbsentRuleFailsOpen ==
    \A p \in PolicyIds :
        (policyEnabled[p] /\ RegoCode(p) = "absent") =>
            /\ EvaluatePolicy(RegoCode(p)) = {"allowed"}
            /\ \A w \in workers, a \in ProviderIds : <<a, p>> \notin hist[w].breached
            /\ NothingFor(p)

\* The tick is over: p1, without rule definition, was evaluated for a1 and left
\* nothing, while its sibling p2 breached and has its violation.
C11_Witness ==
    /\ TickOver("w1")
    /\ RegoCode("p1") = "absent"
    /\ <<"a1", "p1">> \in hist["w1"].evaluated
    /\ <<"a1", "p2">> \in hist["w1"].breached
    /\ RowsOf("p2") # {}
    /\ RowsOf("p1") = {}

\* C12: a policy whose rule definition fails to compile or to evaluate never
\* counts as breached and gets no violation (nor any other record); and at the
\* end of a tick every enabled policy of the organization, the failing one and
\* its siblings, was evaluated for every account whose fetch succeeded.
C12_EvaluationErrorNotViolated ==
    \A p \in PolicyIds :
        (policyEnabled[p] /\ RegoCode(p) \in {"uncompilable", "evalError"}) =>
            /\ \A w \in workers, a \in ProviderIds : <<a, p>> \notin hist[w].breached
            /\ NothingFor(p)
            /\ \A w \in workers :
                  TickOver(w) =>
                  \A a \in FetchedOk(w) :
                      PolicyOrg(p) = ProviderOrg(a) =>
                      \A q \in PoliciesFor(a) : <<a, q>> \in hist[w].evaluated

\* The tick is over: p1, whose rule does not compile, was evaluated first and
\* left nothing; p2, evaluated after it, breached and has its violation.
C12_Witness ==
    /\ TickOver("w1")
    /\ RegoCode("p1") = "uncompilable"
    /\ <<"a1", "p1">> \in hist["w1"].evaluated
    /\ <<"a1", "p2">> \in hist["w1"].breached
    /\ RowsOf("p2") # {}

\* The delivery attempts made for violation v to webhook h.
AttemptsOf(v, h) == {i \in Idx(deliveries) : deliveries[i].vid = v /\ deliveries[i].webhook = h}
\* Worker w created violation v in its current tick and has finished handling it.
HandledThisTick(w, v) ==
    /\ violations[v].createdAt = ticks[w]
    /\ wk[w].violation.id # v

\* C13: for every violation created in the tick and handled to the end, whose
\* notification did not stop at sendWebhooks' own two database queries, exactly
\* one delivery was attempted to each enabled webhook of the policy's
\* organization (and none to any other webhook), whatever the endpoints returned.
C13_FanoutToEveryEnabledWebhook ==
    \A w \in workers :
        \A v \in VIds :
            (HandledThisTick(w, v) /\ v \notin hist[w].notifyErr) =>
                \A h \in WebhookIds :
                    Cardinality(AttemptsOf(v, h)) =
                        IF webhookEnabled[h] /\ WebhookOrg(h) = PolicyOrg(violations[v].policy)
                        THEN 1 ELSE 0

\* Three enabled webhooks of the organization, the first one answering 500:
\* the violation's handling is over and the two after it were attempted.
C13_Witness ==
    /\ endpoint["h1"] = "500" /\ endpoint["h2"] = "2xx" /\ endpoint["h3"] = "2xx"
    /\ \E v \in VIds :
          /\ HandledThisTick("w1", v)
          /\ \A h \in {"h1", "h2", "h3"} :
                \E i \in AttemptsOf(v, h) : deliveries[i].outcome = endpoint[h]

\* The executions of run that worker w entered and that have not returned.
RunsInProgress(w) == ticks[w] - returns[w]
\* Worker w is outside run: before the first call, at the select, or returned.
OutsideRun(w) == wk[w].pc \in {"start", "wait", "stopped"}

\* C14 (as the code has it): at most one execution of run is in progress at any
\* time, run is entered only from outside run, and the ticker holds at most one
\* due tick; a tick that fell due during a run starts only after that run
\* returned.
C14_TicksNeverOverlap ==
    \A w \in workers :
        /\ RunsInProgress(w) \in {0, 1}
        /\ OutsideRun(w) => RunsInProgress(w) = 0
        /\ wk[w].pc \notin {"start", "wait", "stopped", "exited"} => RunsInProgress(w) = 1
        /\ tickerC[w] \in {0, 1}
        /\ hist[w].late => ticks[w] >= 2 /\ returns[w] >= ticks[w] - 1

\* C14 (as stated): a tick that falls due while another is running is skipped,
\* so no execution of run is started by such a tick.
C14_LateTickSkipped ==
    \A w \in workers : ~hist[w].late

\* A tick fell due during the first run, was held by the ticker, and the second
\* run was started by it once the first had returned.
C14_Witness ==
    /\ hist["w1"].late
    /\ wk["w1"].pc = "run"
    /\ ticks["w1"] = 2
    /\ returns["w1"] = 1

\* C15: once the cancellation signal is raised, a worker that has made its
\* first run enters run no more: the number of ticks started does not change.
C15_NoTickAfterCancel ==
    [][\A w \in workers :
          (cancelled /\ ticks[w] >= 1) => ticks'[w] = ticks[w]]_vars

\* Nothing was written with the time of worker w's current tick.
NoRecordOfTick(w) ==
    /\ \A v \in VIds : violations[v].createdAt # ticks[w]
    /\ \A i \in Idx(activity) : activity[i].createdAt # ticks[w]
    /\ \A i \in Idx(remCalls) : remCalls[i].tick # ticks[w]
    /\ \A i \in Idx(deliveries) : deliveries[i].timestamp # ticks[w]

\* C16: a tick whose policy or provider listing failed is over at once, with
\* nothing fetched, no spend written, nothing evaluated and no record created,
\* and the worker is back at the select, where the next value of the ticker
\* starts the next run; a tick that ended in any other way has processed every
\* connected account.
C16_ListingFailureEndsTickOnly ==
    \A w \in workers :
        /\ hist[w].aborted =>
              /\ wk[w].pc = "wait"
              /\ hist[w].fetched = {} /\ hist[w].evaluated = {}
              /\ \A a \in ProviderIds : hist[w].spendWrites[a] = 0
              /\ spend = hist[w].spend0
              /\ NoRecordOfTick(w)
              /\ (tickerC[w] = 1 /\ ticks[w] < tickLimit) => ENABLED Start_Tick(w)
        /\ (wk[w].pc = "wait" /\ ticks[w] >= 1 /\ ~hist[w].aborted) =>
              \A a \in ProviderIds : providerConnected[a] => a \in hist[w].fetched

\* The tick after one that a failed listing ended: it ran to its end, fetched
\* the account and created a violation.
C16_Witness ==
    /\ hist["w1"].afterAbort
    /\ wk["w1"].pc = "wait"
    /\ ~hist["w1"].aborted
    /\ "a1" \in FetchedOk("w1")
    /\ \E v \in VIds : violations[v].createdAt = ticks["w1"]

\* C17: no outbound call leaves the worker blocked for ever inside run.
C17_NoCallBlocksForever ==
    \A w \in workers : wk[w].pc # "blocked"

\* C18: every remediation call made for a policy is the one of the policy's
\* type (max_spend: stop non-essential resources, block_instance_type:
\* terminate oversized instances, auto_stop_idle: stop idle resources); for a
\* require_tags policy no call is made, the engine never marks its violation
\* remediated, and the enabled webhooks of the organization are still notified.
C18_ActionFromPolicyType ==
    /\ \A i \in Idx(remCalls) :
          LET t == policyType[remCalls[i].policy]
              act == remCalls[i].action
          IN  /\ t \in {"max_spend", "block_instance_type", "auto_stop_idle"}
              /\ t = "max_spend" => act = "StopNonEssentialResources"
              /\ t = "block_instance_type" => act = "TerminateOversizedInstances"
              /\ t = "auto_stop_idle" => act = "StopIdleResources"
    /\ \A v \in VIds :
          LET p == violations[v].policy
          IN  /\ (policyType[p] \in {"max_spend", "block_instance_type", "auto_stop_idle"}
                   /\ \E w \in workers : HandledThisTick(w, v))
                  => \E i \in Idx(remCalls) : remCalls[i].vid = v
              /\ policyType[p] = "require_tags" =>
                  /\ violations[v].status # "remediated"
                  /\ violations[v].remediatedAt = 0
                  /\ ~HasRemediationLog(v)
                  /\ \A w \in workers :
                        (HandledThisTick(w, v) /\ v \notin hist[w].notifyErr) =>
                        \A h \in WebhookIds :
                            (webhookEnabled[h] /\ WebhookOrg(h) = PolicyOrg(p)) =>
                            \E i \in AttemptsOf(v, h) : deliveries[i].status = "pending"

\* The tick is over: block_instance_type policy p1 got the terminate call, and
\* require_tags policy p2 has a pending violation, no call and a delivery.
C18_Witness ==
    /\ TickOver("w1")
    /\ policyType["p1"] = "block_instance_type"
    /\ \E i \in Idx(remCalls) :
          remCalls[i].policy = "p1" /\ remCalls[i].action = "TerminateOversizedInstances"
    /\ \E v \in VIds :
          /\ violations[v].policy = "p2"
          /\ violations[v].status = "pending"
          /\ AttemptsOf(v, "h1") # {}
          /\ \A i \in Idx(remCalls) : remCalls[i].vid # v

\* The activity log has an entry of the given type for violation v.
HasLog(v, type) == \E i \in Idx(activity) : activity[i].type = type /\ activity[i].vid = v
\* The remediation calls made for violation v.
CallsFor(v) == {i \in Idx(remCalls) : remCalls[i].vid = v}
\* The delivery attempts made for violation v.
DeliveriesFor(v) == {i \in Idx(deliveries) : deliveries[i].vid = v}
\* The worker's remediate has an action for the type of violation v's policy.
HasAction(v) ==
    policyType[violations[v].policy] \in {"max_spend", "block_instance_type", "auto_stop_idle"}

C20_SpendWrittenOncePerFetch ==
    \A w \in workers :
        \A a \in ProviderIds :
            /\ a \in FetchedOk(w) =>
                  hist[w].spendWrites[a] = 1 /\ spend[a] = ticks[w]
            /\ a \notin FetchedOk(w) =>
                  hist[w].spendWrites[a] = 0 /\ spend[a] = hist[w].spend0[a]
            /\ \A p \in PolicyIds :
                  <<a, p>> \in hist[w].evaluated => hist[w].spendWrites[a] = 1

\* The second tick is over: a1's spend went from the first tick's amount to the
\* second's, although the remediation call made in this tick failed.
C20_Witness ==
    /\ TickOver("w1")
    /\ ticks["w1"] = 2
    /\ "a1" \in FetchedOk("w1")
    /\ hist["w1"].spend0["a1"] = 1
    /\ spend["a1"] = 2
    /\ \E i \in Idx(remCalls) :
          remCalls[i].tick = 2 /\ remCalls[i].provider = "a1" /\ ~remCalls[i].ok

\* The policies worker w loaded at the start of its current tick.
LoadedPolicies(w) == {wk[w].policies[i] : i \in 1..Len(wk[w].policies)}

\* C21: every evaluation of a tick is of a policy the tick loaded, which is
\* enabled and of the account's organization; and every violation row is of an
\* enabled policy and an account of the policy's organization.
C21_OnlyEnabledSameOrgEvaluated ==
    /\ \A w \in workers :
          \A a \in ProviderIds, p \in PolicyIds :
              <<a, p>> \in hist[w].evaluated =>
                  /\ p \in LoadedPolicies(w)
                  /\ policyEnabled[p]
                  /\ PolicyOrg(p) = ProviderOrg(a)
    /\ \A v \in VIds :
          /\ policyEnabled[violations[v].policy]
          /\ PolicyOrg(violations[v].policy) = ProviderOrg(violations[v].resource)

\* The tick is over: p3, of another organization, was loaded and passed over
\* for both accounts, disabled p2 was not loaded, and p1 breached for a1.
C21_Witness ==
    /\ TickOver("w1")
    /\ "p3" \in LoadedPolicies("w1")
    /\ "p2" \notin LoadedPolicies("w1")
    /\ {"a1", "a2"} \subseteq FetchedOk("w1")
    /\ <<"a1", "p1">> \in hist["w1"].breached
    /\ \A a \in ProviderIds : <<a, "p3">> \notin hist["w1"].evaluated
    /\ \E v \in VIds : violations[v].policy = "p1" /\ violations[v].resource = "a1"

\* C22: when handleViolation runs for a policy that has a pending violation
\* (whatever account or resource that violation is about), it returns to the
\* policies loop and adds no violation, no activity log entry, no remediation
\* call and no webhook delivery.
C22_PendingSuppressesOtherBreach ==
    [][\A w \in workers :
          (/\ wk[w].pc = "lookup"
           /\ PendingOf(wk[w].policies[wk[w].polIdx]) # {}
           /\ wk'[w] # wk[w])
          => /\ wk'[w].pc = "policy"
             /\ wk'[w].polIdx = wk[w].polIdx + 1
             /\ Len(violations') = Len(violations)
             /\ activity' = activity
             /\ remCalls' = remCalls
             /\ deliveries' = deliveries]_vars

\* The tick is over: p1 breached for a1 and for a2; its only row is the pending
\* one about a1, with one log entry, and nothing was done on behalf of a2.
C22_Witness ==
    /\ TickOver("w1")
    /\ {<<"a1", "p1">>, <<"a2", "p1">>} \subseteq hist["w1"].breached
    /\ "p1" \notin dbErr
    /\ Cardinality(RowsOf("p1")) = 1
    /\ \A v \in RowsOf("p1") :
          violations[v].resource = "a1" /\ violations[v].status = "pending"
    /\ Cardinality({i \in Idx(activity) : activity[i].policy = "p1"}) = 1
    /\ \A i \in Idx(remCalls) : remCalls[i].provider = "a1"
    /\ handled["p1"] = 2

\* C24: a violation stored as remediated has had a remediation action invoked
\* for it that returned success.
C24_RemediatedOnlyAfterSuccessfulAction ==
    \A v \in VIds :
        violations[v].status = "remediated" => \E i \in CallsFor(v) : remCalls[i].ok

C26_PayloadCarriesStoredStatus ==
    \A i \in Idx(deliveries) :
        (\E j \in CallsFor(deliveries[i].vid) : remCalls[j].ok)
            => deliveries[i].status = "remediated"

\* The violations of policy p created before worker w's current tick.
EarlierRowsOf(w, p) == {v \in RowsOf(p) : violations[v].createdAt < ticks[w]}
\* The violations of policy p created in worker w's current tick.
NewRowsOf(w, p) == {v \in RowsOf(p) : violations[v].createdAt = ticks[w]}

\* C27: at the end of a tick in which policy p breached, all of whose earlier
\* violations were marked remediated in earlier ticks (and whose lookups and
\* inserts met no database error), the tick has created a new violation of p,
\* invoked the remediation action for it and, unless sendWebhooks' own queries
\* failed, attempted delivery to every enabled webhook of the organization.
C27_RemediatedBreachRepeats ==
    \A w \in workers :
        \A p \in PolicyIds :
            (/\ TickOver(w)
             /\ \E a \in ProviderIds : <<a, p>> \in hist[w].breached
             /\ p \notin dbErr
             /\ EarlierRowsOf(w, p) # {}
             /\ \A v \in EarlierRowsOf(w, p) :
                   violations[v].remediatedAt \in 1..(ticks[w] - 1))
            => /\ Cardinality(RowsOf(p)) >= Cardinality(EarlierRowsOf(w, p)) + 1
               /\ \E v \in NewRowsOf(w, p) :
                     /\ HasLog(v, "policy_violation")
                     /\ HasAction(v) => CallsFor(v) # {}
                     /\ v \notin hist[w].notifyErr =>
                           \A h \in WebhookIds :
                               (webhookEnabled[h] /\ WebhookOrg(h) = PolicyOrg(p))
                                   => AttemptsOf(v, h) # {}

\* The second tick is over: p1's violation of tick 1 was remediated then, and
\* tick 2 created another one, called the action again and notified again.
C27_Witness ==
    /\ TickOver("w1")
    /\ ticks["w1"] = 2
    /\ policyType["p1"] = "max_spend"
    /\ \E v1 \in RowsOf("p1"), v2 \in RowsOf("p1") :
          /\ violations[v1].createdAt = 1 /\ violations[v1].remediatedAt = 1
          /\ violations[v2].createdAt = 2
          /\ CallsFor(v1) # {} /\ CallsFor(v2) # {}
          /\ AttemptsOf(v1, "h1") # {} /\ AttemptsOf(v2, "h1") # {}

\* C28: for an enabled policy whose rule definition compiles but leaves the
\* queried allow rule undefined, EvaluatePolicy returns not allowed without
\* error: every evaluation of the policy is a breach, and at the end of the
\* tick the policy has a violation (unless the database refused the lookup or
\* the insert).
C28_UndefinedAllowIsViolation ==
    \A p \in PolicyIds :
        (policyEnabled[p] /\ RegoCode(p) = "undefinedAllow") =>
            /\ EvaluatePolicy(RegoCode(p)) = {"violated"}
            /\ \A w \in workers, a \in ProviderIds :
                  /\ <<a, p>> \in hist[w].evaluated => <<a, p>> \in hist[w].breached
                  /\ (TickOver(w) /\ <<a, p>> \in hist[w].evaluated /\ p \notin dbErr)
                        => RowsOf(p) # {}

\* The tick is over: p1, whose definition leaves allow undefined, was evaluated
\* for a1 and has its violation.
C28_Witness ==
    /\ TickOver("w1")
    /\ RegoCode("p1") = "undefinedAllow"
    /\ <<"a1", "p1">> \in hist["w1"].breached
    /\ \E v \in NewRowsOf("w1", "p1") : violations[v].resource = "a1"

\* What the most recent completed reload read for p, while neither the
\* directory nor a SavePolicy has given p another definition since it was read.
LoadedByReload(p) == engHist.loaded[p]
\* Caller t's step ends its reload.
ReloadCompletes(t) == eng[t].op = "ReloadPolicies" /\ mu = t /\ mu' = ""
\* The worker's step begins an EvaluatePolicy of p.
EvaluateStarts(p) ==
    /\ eng["worker"].pc = "idle"
    /\ eng'["worker"].op = "EvaluatePolicy"
    /\ eng'["worker"].name = p

\* C23: when a reload completes, the cached definition of every policy id it
\* read from the directory is the definition it read, and every EvaluatePolicy
\* that starts after that (before the directory or a SavePolicy gives the id
\* another definition) uses that definition.
C23_ReloadMakesCacheCurrent ==
    [][/\ \A t \in EngineCallers : ReloadCompletes(t) =>
              \A p \in PolicyIds :
                  eng[t].read[p] # "none" => opaPolicies'[p] = eng[t].read[p]
       /\ \A p \in PolicyIds :
              EvaluateStarts(p) /\ LoadedByReload(p) # "none" =>
                  eng'["worker"].code = LoadedByReload(p)]_vars

\* C29: no reload removes an entry from the cache: a cached definition whose
\* file is gone from the directory stays as it is through every step of a
\* reload, no step empties an entry, and an EvaluatePolicy of a cached id
\* evaluates the cached definition and does not go to the directory.
C29_ReloadNeverRemovesCachedRule ==
    [][\A p \in PolicyIds : opaPolicies[p] # "absent" =>
          /\ opaPolicies'[p] # "absent"
          /\ (regoFiles[p] = "absent" /\ mu' # mu) \/ (regoFiles[p] = "absent" /\ mu # "")
                 => opaPolicies'[p] = opaPolicies[p]
          /\ EvaluateStarts(p) =>
                 /\ eng'["worker"].pc = "eval"
                 /\ eng'["worker"].code = opaPolicies[p]]_vars

\* Two reloads have completed since p's file was removed, and an
\* EvaluatePolicy of p is evaluating the definition still cached.
C29_Witness ==
    \E p \in EnginePolicyIds :
        /\ regoFiles[p] = "absent"
        /\ engHist.gone[p] >= 2
        /\ opaPolicies[p] # "absent"
        /\ eng["worker"].name = p
        /\ eng["worker"].pc = "eval"
        /\ eng["worker"].code = opaPolicies[p]

\* No SavePolicy or ReloadPolicies call is in progress.
SavesAndReloadsReturned ==
    \A t \in EngineCallers : eng[t].op \notin {"SavePolicy", "ReloadPolicies"}

\* C30: once every SavePolicy and ReloadPolicies call has returned, the cached
\* definition of each policy id saved by SavePolicy (and not changed in the
\* directory by anything else since) is the definition in its file.
C30_CacheEqualsDiskAfterSaves ==
    SavesAndReloadsReturned =>
        \A p \in engHist.saved : opaPolicies[p] = regoFiles[p]
====
